---- MODULE Spec2Model ----
(***************************************************************************)
(* Model of the bank service agent: the routing workflow of                *)
(* BankServiceAgent (src/src/agent.py) and the tools it drives, RAGTool,   *)
(* ModelTool and WebSearchTool (src/src/tools.py).                         *)
(*                                                                         *)
(* Text is a sequence of tokens.  A letter, blank or punctuation mark is   *)
(* a one-character token; a fixed message of the program is one token      *)
(* (the Chinese literals of the source are written as ASCII tags).         *)
(***************************************************************************)
EXTENDS Integers, Sequences, FiniteSets, TLC

\* ------------------------------------------------------------------ bounds
MaxTurns == 2        \* chat() invocations explored by Spec
LongTurns == 7       \* chat() invocations explored by SpecLong
MaxLoads == 2        \* load_documents() calls explored
MaxBatch == 2        \* sources in one load_documents() batch
MaxQueries == 2      \* direct RAGTool.query() calls explored by SpecRag
ConcTurns == 6       \* chat() invocations explored by SpecConc

\* ------------------------------------------------------- program constants
HistoryCap == 10     \* agent.py:173  len(self.chat_history) > 10
ContextWindow == 3   \* agent.py:67   self.chat_history[-3:]
DefaultK == 4        \* tools.py:120  k: int = 4

\* -------------------------------------------------------------------- text
\* Python's None, where a str is expected
PyNone == <<"<None>">>

\* agent.py:193, the fixed reply of chat() when the workflow raised
APOLOGY == <<"<sorry, an error occurred while handling your request>">>

\* tools.py:205, prefix of the text ModelTool.query returns on a provider error
MODEL_FAILED == "<model call failed: >"

\* tools.py:131 and tools.py:139, the two fixed replies of RAGTool.query
EMPTY_KB == <<"<knowledge base is empty, upload documents first>">>
NO_DOCS == <<"<no relevant documents found>">>

\* tools.py:171, prefix of the text RAGTool.query returns when retrieval raised
RAG_FAILED == "<error while querying the knowledge base: >"

\* tools.py:315, tools.py:330, tools.py:332: replies of WebSearchTool.search
NO_RESULTS == <<"<no search results found>">>
SEARCH_FAILED == "<search failed: >"
SEARCH_ERROR == "<error while searching: >"

\* the three labels the tool stages compare tool_choice with
RAG == <<"R", "A", "G">>
MODEL == <<"M", "O", "D", "E", "L">>
SEARCH == <<"S", "E", "A", "R", "C", "H">>
Labels == {RAG, MODEL, SEARCH}

\* str.upper() on one token: letters are raised, everything else is kept
UpperTok(c) ==
  CASE c = "r" -> "R" [] c = "a" -> "A" [] c = "g" -> "G"
    [] c = "m" -> "M" [] c = "o" -> "O" [] c = "d" -> "D"
    [] c = "e" -> "E" [] c = "l" -> "L" [] c = "s" -> "S"
    [] c = "c" -> "C" [] c = "h" -> "H" [] c = "x" -> "X"
    [] OTHER -> c

Upper(t) == [i \in 1..Len(t) |-> UpperTok(t[i])]

IsSpace(c) == c \in {" ", "\n", "\t"}

RECURSIVE LStrip(_)
LStrip(t) == IF t # <<>> /\ IsSpace(Head(t)) THEN LStrip(Tail(t)) ELSE t

RECURSIVE RStrip(_)
RStrip(t) ==
  IF t # <<>> /\ IsSpace(t[Len(t)]) THEN RStrip(SubSeq(t, 1, Len(t) - 1)) ELSE t

\* str.strip()
Strip(t) == RStrip(LStrip(t))

\* the last n elements of a list: s[-n:]
LastN(s, n) == IF Len(s) <= n THEN s ELSE SubSeq(s, Len(s) - n + 1, Len(s))

\* ------------------------------------------------------------- ModelTool
\* What client.chat.completions.create(...) does with one request: it
\* answers with a message whose content is a text or None, or it raises.
Ok(t) == [kind |-> "ok", text |-> t]
Raise(d) == [kind |-> "raise", text |-> d]

\* ModelTool.query, had it logged a provider error and returned None
ModelToolQuery_returns_none(o) == IF o.kind = "raise" THEN PyNone ELSE o.text

\* ModelTool.query: the content of the answer, or the degraded text
ModelToolQuery(o) ==
  IF o.kind = "raise" THEN <<MODEL_FAILED>> \o o.text ELSE o.text

\* ------------------------------------------------------------ the inputs
Q1 == <<"q", "1">>
Q2 == <<"q", "2">>
Queries == {Q1, Q2}

ANSWER == <<"o", "k">>
ERR == <<"e", "r", "r">>

\* answers of the provider to a request that asks for an answer
AnswerOutcomes == {Ok(ANSWER), Ok(PyNone), Raise(ERR)}

\* answers of the provider to the routing request
RouteOutcomes ==
  {Ok(RAG), Ok(MODEL), Ok(SEARCH), Ok(<<" ", "r", "a", "g", "\n">>),
   Ok(<<"R", "A", "G", "!">>), Ok(PyNone), Raise(ERR)}

\* the threads that may run chat(); Main is the one the UI calls it from
Procs == {1, 2}
Main == 1

Stages == {"use_rag", "use_model", "use_web_search"}

VARIABLES
  chat_history,   \* BankServiceAgent.chat_history (the conversation memory)
  pc,             \* per thread: where its chat() call stands
  st,             \* per thread: the AgentState of the running workflow
  stHist,         \* per thread: the list st["chat_history"] refers to
  stAlias,        \* per thread: that list is the object self.chat_history
  pending,        \* per thread: tool stages of the fan-out still to run
  ret,            \* per thread: what its last chat() call returned
  hist0,          \* per thread: chat_history when its chat() call began
  outcome,        \* per thread: how its last chat() call ended
  invoked,        \* per thread: tools called in the running turn
  writers,        \* per thread: stages that wrote tool_result in the turn
  synth,          \* per thread: how the provider took the synthesis request
  obs,            \* per thread: what the turn's external calls answered
                  \* and the memory entries its two prompts held
  log,            \* the completed turns, <<query, response>>, in order
  turns,          \* chat() invocations so far
  cut,            \* per thread: the slice chat_history[-10:] it has taken and
                  \* not yet assigned
  vector_store,   \* RAGTool.vector_store: None or the indexed chunks
  rq,             \* per thread: its running RAGTool.query call
  ld,             \* the running RAGTool.load_documents call
  loads,          \* load_documents() invocations so far
  lastLoad,       \* the chunks of the batch of the last load that built an index
  nq,             \* direct query() invocations so far
  ui              \* the page: st.session_state.messages, whether a prompt
                  \* is being handled, the prompt, and the chat() calls
                  \* made before it

agentVars ==
  <<chat_history, pc, st, stHist, stAlias, pending, ret, hist0, outcome,
    invoked, writers, synth, obs, log, turns, cut>>
ragVars == <<vector_store, rq, ld, loads, lastLoad, nq>>
vars == <<agentVars, ragVars, ui>>

\* AgentState of agent.py:13-19, as chat() builds it
NewState(q) ==
  [query |-> q, tool_choice |-> PyNone, tool_result |-> PyNone,
   response |-> PyNone]

Entry(role, content) == [role |-> role, content |-> content]

\* no request made yet
NoOutcome == [kind |-> "none", text |-> <<>>]
NoBackend == [kind |-> "none", hasItems |-> FALSE, items |-> <<>>, text |-> <<>>]

\* a turn that has called nothing yet: the provider's answers to the
\* routing request and to the MODEL stage, the search backend's answer, and
\* the memory entries in the classification and the synthesis prompt
NoObs ==
  [route |-> NoOutcome, tool |-> NoOutcome, backend |-> NoBackend,
   ctxA |-> <<>>, ctxS |-> <<>>]

\* agent.py:66-68 and 146-148: the memory entries put in a prompt
Window(h) == LastN(h, ContextWindow)

\* agent.py:64-68: the memory entries of the classification prompt
AnalyzeContext(h) == Window(h)

\* the same, had the synthesis prompt taken the last five entries
SynthContext_wider(h) == LastN(h, 5)

\* agent.py:144-148: the memory entries of the synthesis prompt
SynthContext(h) == Window(h)

\* the cut, had it kept one entry less than the cap
Trim_splits_pair(h) ==
  IF Len(h) > HistoryCap THEN LastN(h, HistoryCap - 1) ELSE h

\* the cut, had it kept the first ten entries
Trim_keeps_oldest(h) == IF Len(h) > HistoryCap THEN SubSeq(h, 1, HistoryCap) ELSE h

\* agent.py:173-174: keep the last ten entries
Trim(h) == IF Len(h) > HistoryCap THEN LastN(h, HistoryCap) ELSE h

\* the appends, had the assistant's entry been recorded first
AppendTurn_swapped(h, q, r) ==
  Append(Append(h, Entry("assistant", r)), Entry("user", q))

\* agent.py:169-170: the two entries a completed turn adds
AppendTurn(h, q, r) == Append(Append(h, Entry("user", q)), Entry("assistant", r))

Idle == \A p \in Procs : pc[p] = "idle"

\* app.py:70-85: a new session shows the welcome message
WELCOME == <<"<welcome, how can I help you>">>
NoUi ==
  [messages |-> <<Entry("assistant", WELCOME)>>, pc |-> "ready",
   prompt |-> PyNone, n |-> 0]

\* ---------------------------------------------------------- WebSearchTool
\* What service.cse().list(...).execute() does: it answers with a result
\* that has an "items" list or has none, or it raises.
Item(title, snippet, link) == [title |-> title, snippet |-> snippet, link |-> link]
Found(items) == [kind |-> "result", hasItems |-> TRUE, items |-> items, text |-> <<>>]
NoItems == [kind |-> "result", hasItems |-> FALSE, items |-> <<>>, text |-> <<>>]
HttpError(d) == [kind |-> "http_error", hasItems |-> FALSE, items |-> <<>>, text |-> d]
OtherError(d) == [kind |-> "error", hasItems |-> FALSE, items |-> <<>>, text |-> d]

\* dict.get(key, default): PyNone stands for a key the item does not have
Get(v, default) == IF v = PyNone THEN default ELSE v

\* tools.py:319-322: one search hit as text
FormatItem(it) ==
  <<"title: ">> \o Get(it.title, <<"<no title>">>) \o <<"\n", "snippet: ">>
    \o Get(it.snippet, <<"<no snippet>">>) \o <<"\n", "link: ">>
    \o Get(it.link, <<>>) \o <<"\n">>

\* sep.join(parts)
RECURSIVE Join(_, _)
Join(parts, sep) ==
  IF parts = <<>> THEN <<>>
  ELSE IF Len(parts) = 1 THEN parts[1]
  ELSE parts[1] \o sep \o Join(Tail(parts), sep)

\* WebSearchTool.search, had it logged a failure and returned None
SearchText_swallows(o) ==
  IF o.kind \in {"http_error", "error"} THEN PyNone
  ELSE IF ~o.hasItems THEN NO_RESULTS
  ELSE Join([i \in 1..Len(o.items) |-> FormatItem(o.items[i])], <<"\n">>)

\* WebSearchTool.search: the text it returns for one answer of the backend
SearchText(o) ==
  IF o.kind = "http_error" THEN <<SEARCH_FAILED>> \o o.text
  ELSE IF o.kind = "error" THEN <<SEARCH_ERROR>> \o o.text
  ELSE IF ~o.hasItems THEN NO_RESULTS
  ELSE Join([i \in 1..Len(o.items) |-> FormatItem(o.items[i])], <<"\n">>)

HIT == Item(<<"t">>, <<"s">>, <<"u">>)
BARE == Item(PyNone, PyNone, PyNone)
SearchOutcomes ==
  {Found(<<HIT>>), Found(<<HIT, BARE>>), Found(<<>>), NoItems,
   HttpError(ERR), OtherError(ERR)}

\* ---------------------------------------------------------------- RAGTool
\* An uploaded file: whether its bytes decode as UTF-8, and the chunks the
\* text splitter of tools.py:63-66 cuts the decoded text into.
Source(name, decodes, chunks) == [name |-> name, decodes |-> decodes, chunks |-> chunks]
SrcA == Source("a.txt", TRUE, <<"c1", "c2", "c3">>)
SrcB == Source("b.md", TRUE, <<"c4">>)
SrcEmpty == Source("e.txt", TRUE, <<>>)
SrcBad == Source("x.pdf", FALSE, <<>>)
Sources == {SrcA, SrcB, SrcEmpty, SrcBad}

RECURSIVE SeqsUpTo(_, _)
SeqsUpTo(S, n) ==
  IF n = 0 THEN {<<>>}
  ELSE LET shorter == SeqsUpTo(S, n - 1)
       IN  shorter \cup {Append(b, x) : b \in shorter, x \in S}

Batches == SeqsUpTo(Sources, MaxBatch)

\* tools.py:86-95: the chunks one file adds to documents
FileChunks(file) == IF file.decodes THEN file.chunks ELSE <<>>

\* tools.py:84-95: documents after the loop over the whole batch
RECURSIVE DecodableChunks(_)
DecodableChunks(files) ==
  IF files = <<>> THEN <<>>
  ELSE FileChunks(Head(files)) \o DecodableChunks(Tail(files))

\* the build, had it added the new chunks to the index in place
Install_appends(old, documents) ==
  (IF old = PyNone THEN <<>> ELSE old) \o documents

\* tools.py:101: the index a successful build installs
Install(old, documents) == documents

\* tools.py:103, 105, 108: what load_documents reports
LoadedReport(n) == <<"<loaded>", ToString(n), "<chunks>">>
NOTHING_LOADED == <<"<no processable document content found>">>
LOAD_FAILED == "<error while processing documents: >"

\* a load_documents call: its position, its argument, the loop index, the
\* local list documents, what it returns, and the index it found in place
\* when it installed its own, and the index in place when it was called
NoLoad ==
  [pc |-> "idle", files |-> <<>>, i |-> 1, documents |-> <<>>,
   report |-> PyNone, before |-> PyNone, start |-> PyNone]

\* a query call: its position, its arguments, the retrieved chunks, what it
\* returns, and what it did: saw an index, searched it, called the model,
\* and what the provider answered
NoQuery ==
  [pc |-> "idle", question |-> PyNone, k |-> DefaultK, docs |-> <<>>,
   result |-> PyNone, indexed |-> FALSE, searched |-> "no", called |-> FALSE,
   answer |-> NoOutcome]

\* What vector_store.similarity_search(question, k) may return: the chunks
\* nearest to the question, at most k of them and no more than the index
\* holds.  The ranking by similarity is taken to be the order of the index.
Retrievals(store, k) ==
  {SubSeq(store, 1, n) : n \in 0..(IF Len(store) < k THEN Len(store) ELSE k)}

\* the index query() reads, an empty list when there is none
Indexed == IF vector_store = PyNone THEN <<>> ELSE vector_store

\* ------------------------------------------------------------------- Init
Init ==
  /\ chat_history = <<>>
  /\ pc = [p \in Procs |-> "idle"]
  /\ st = [p \in Procs |-> NewState(PyNone)]
  /\ stHist = [p \in Procs |-> <<>>]
  /\ stAlias = [p \in Procs |-> FALSE]
  /\ pending = [p \in Procs |-> {}]
  /\ ret = [p \in Procs |-> PyNone]
  /\ hist0 = [p \in Procs |-> <<>>]
  /\ outcome = [p \in Procs |-> "none"]
  /\ invoked = [p \in Procs |-> {}]
  /\ writers = [p \in Procs |-> {}]
  /\ synth = [p \in Procs |-> "none"]
  /\ obs = [p \in Procs |-> NoObs]
  /\ log = <<>>
  /\ turns = 0
  /\ cut = [p \in Procs |-> <<>>]
  /\ vector_store = PyNone
  /\ rq = [p \in Procs |-> NoQuery]
  /\ ld = NoLoad
  /\ loads = 0
  /\ lastLoad = PyNone
  /\ nq = 0
  /\ ui = NoUi

\* ------------------------------------------------- RAGTool.load_documents
\* the call, had it dropped the index in place before collecting chunks
load_documents_resets(files) ==
  /\ ld.pc = "idle"
  /\ ld' = [NoLoad EXCEPT !.pc = "loop", !.files = files,
                          !.start = vector_store]
  /\ loads' = loads + 1
  /\ vector_store' = PyNone
  /\ UNCHANGED <<agentVars, rq, lastLoad, nq, ui>>

\* tools.py:83-84: the call begins with an empty documents list
load_documents(files) ==
  /\ ld.pc = "idle"
  /\ ld' = [NoLoad EXCEPT !.pc = "loop", !.files = files,
                          !.start = vector_store]
  /\ loads' = loads + 1
  /\ UNCHANGED <<agentVars, vector_store, rq, lastLoad, nq, ui>>

\* the loop, had it indexed the chunks of each file as it went
load_file_indexes_at_once ==
  /\ ld.pc = "loop"
  /\ ld.i <= Len(ld.files)
  /\ ld' = [ld EXCEPT !.documents = @ \o FileChunks(ld.files[ld.i]),
                      !.i = @ + 1]
  /\ vector_store' =
       IF FileChunks(ld.files[ld.i]) = <<>> THEN vector_store
       ELSE ld.documents \o FileChunks(ld.files[ld.i])
  /\ UNCHANGED <<agentVars, rq, loads, lastLoad, nq, ui>>

\* the loop, had a file that fails to decode ended it
load_file_stops_at_failure ==
  /\ ld.pc = "loop"
  /\ ld.i <= Len(ld.files)
  /\ ld' = IF ld.files[ld.i].decodes
             THEN [ld EXCEPT !.documents = @ \o FileChunks(ld.files[ld.i]),
                             !.i = @ + 1]
             ELSE [ld EXCEPT !.i = Len(ld.files) + 1]
  /\ UNCHANGED <<agentVars, vector_store, rq, loads, lastLoad, nq, ui>>

\* tools.py:85-95: one pass of the loop; a file that fails is skipped
load_file ==
  /\ ld.pc = "loop"
  /\ ld.i <= Len(ld.files)
  /\ ld' = [ld EXCEPT !.documents = @ \o FileChunks(ld.files[ld.i]),
                      !.i = @ + 1]
  /\ UNCHANGED <<agentVars, vector_store, rq, loads, lastLoad, nq, ui>>

\* the end of the call, had a load without chunks or a failed build
\* dropped the index in place
load_build_clears(built) ==
  /\ ld.pc = "loop"
  /\ ld.i > Len(ld.files)
  /\ IF ld.documents # <<>> /\ built
       THEN /\ vector_store' = Install(vector_store, ld.documents)
            /\ lastLoad' = DecodableChunks(ld.files)
            /\ ld' = [ld EXCEPT !.pc = "done", !.before = vector_store,
                                !.report = LoadedReport(Len(ld.documents))]
       ELSE /\ ld' = [ld EXCEPT !.pc = "done",
                                !.report = IF ld.documents = <<>>
                                             THEN NOTHING_LOADED
                                             ELSE <<LOAD_FAILED>> \o ERR]
            /\ vector_store' = PyNone
            /\ UNCHANGED lastLoad
  /\ UNCHANGED <<agentVars, rq, loads, nq, ui>>

\* tools.py:97-110: build and install the index, or report why not;
\* built says whether FAISS.from_documents returned or raised
load_build(built) ==
  /\ ld.pc = "loop"
  /\ ld.i > Len(ld.files)
  /\ IF ld.documents # <<>> /\ built
       THEN /\ vector_store' = Install(vector_store, ld.documents)
            /\ lastLoad' = DecodableChunks(ld.files)
            /\ ld' = [ld EXCEPT !.pc = "done", !.before = vector_store,
                                !.report = LoadedReport(Len(ld.documents))]
       ELSE /\ ld' = [ld EXCEPT !.pc = "done",
                                !.report = IF ld.documents = <<>>
                                             THEN NOTHING_LOADED
                                             ELSE <<LOAD_FAILED>> \o ERR]
            /\ UNCHANGED <<vector_store, lastLoad>>
  /\ UNCHANGED <<agentVars, rq, loads, nq, ui>>

\* tools.py:103, 105, 110: load_documents returns ld.report
load_return ==
  /\ ld.pc = "done"
  /\ ld' = NoLoad
  /\ UNCHANGED <<agentVars, vector_store, rq, loads, lastLoad, nq, ui>>

\* ----------------------------------------------------------- RAGTool.query
\* a direct call of query(question), k defaulted
query(p, question) ==
  /\ pc[p] = "idle"
  /\ rq[p].pc = "idle"
  /\ rq' = [rq EXCEPT ![p] = [NoQuery EXCEPT !.pc = "check",
                                             !.question = question]]
  /\ nq' = nq + 1
  /\ UNCHANGED <<agentVars, vector_store, ld, loads, lastLoad, ui>>

\* tools.py:130-131: no index, no retrieval
query_check(p) ==
  /\ rq[p].pc = "check"
  /\ rq' = [rq EXCEPT ![p] =
        IF vector_store = PyNone
          THEN [@ EXCEPT !.pc = "done", !.result = EMPTY_KB]
          ELSE [@ EXCEPT !.pc = "search", !.indexed = TRUE]]
  /\ UNCHANGED <<agentVars, vector_store, ld, loads, lastLoad, nq, ui>>

\* the same, had an empty retrieval gone on to the model
Retrieved_unguarded(q, found, docs) ==
  IF ~found
    THEN [q EXCEPT !.pc = "done", !.searched = "raised",
                   !.result = <<RAG_FAILED>> \o ERR]
    ELSE [q EXCEPT !.pc = "model", !.searched = "returned", !.docs = docs]

\* tools.py:136-142 and 170-173: the call after similarity_search raised
\* (found is FALSE) or returned the chunks docs
Retrieved(q, found, docs) ==
  IF ~found
    THEN [q EXCEPT !.pc = "done", !.searched = "raised",
                   !.result = <<RAG_FAILED>> \o ERR]
  ELSE IF docs = <<>>
    THEN [q EXCEPT !.pc = "done", !.searched = "returned", !.result = NO_DOCS]
    ELSE [q EXCEPT !.pc = "model", !.searched = "returned", !.docs = docs]

\* tools.py:133-142: retrieve from the index as it is now
query_search(p, found, docs) ==
  /\ rq[p].pc = "search"
  /\ vector_store # PyNone
  /\ docs \in Retrievals(vector_store, rq[p].k)
  /\ rq' = [rq EXCEPT ![p] = Retrieved(@, found, docs)]
  /\ UNCHANGED <<agentVars, vector_store, ld, loads, lastLoad, nq, ui>>

\* tools.py:146-168: one request to the model, answered verbatim
query_model(p, o) ==
  /\ rq[p].pc = "model"
  /\ rq' = [rq EXCEPT ![p] = [@ EXCEPT !.pc = "done", !.called = TRUE,
                                       !.answer = o,
                                       !.result = ModelToolQuery(o)]]
  /\ UNCHANGED <<agentVars, vector_store, ld, loads, lastLoad, nq, ui>>

\* the direct call returns rq[p].result
query_return(p) ==
  /\ rq[p].pc = "done"
  /\ "use_rag" \notin pending[p]
  /\ rq' = [rq EXCEPT ![p] = NoQuery]
  /\ UNCHANGED <<agentVars, vector_store, ld, loads, lastLoad, nq, ui>>

\* ------------------------------------------------------- BankServiceAgent
\* agent.py:182-189: chat(q) builds the state and starts the workflow at
\* its entry point
chat(p, q) ==
  /\ pc[p] = "idle"
  /\ rq[p].pc = "idle"
  /\ pc' = [pc EXCEPT ![p] = "analyze_query"]
  /\ st' = [st EXCEPT ![p] = NewState(q)]
  /\ stHist' = [stHist EXCEPT ![p] = chat_history]
  /\ stAlias' = [stAlias EXCEPT ![p] = TRUE]
  /\ pending' = [pending EXCEPT ![p] = {}]
  /\ hist0' = [hist0 EXCEPT ![p] = chat_history]
  /\ outcome' = [outcome EXCEPT ![p] = "running"]
  /\ invoked' = [invoked EXCEPT ![p] = {}]
  /\ writers' = [writers EXCEPT ![p] = {}]
  /\ synth' = [synth EXCEPT ![p] = "none"]
  /\ obs' = [obs EXCEPT ![p] = NoObs]
  /\ turns' = turns + 1
  /\ UNCHANGED <<chat_history, ret, log, cut, ragVars, ui>>

\* the routing label, had the reply not been trimmed
Normalize_no_strip(reply) == Upper(reply)

\* agent.py:106: the routing label made of the model's reply
Normalize(reply) == Upper(Strip(reply))

\* analyze_query, had it recorded the user's entry before asking the model
analyze_query_records_first(p, o) ==
  /\ pc[p] = "analyze_query"
  /\ chat_history' = Append(chat_history, Entry("user", st[p].query))
  /\ obs' = [obs EXCEPT ![p].route = o,
                        ![p].ctxA = AnalyzeContext(chat_history)]
  /\ LET reply == ModelToolQuery(o)
     IN  IF reply = PyNone
           THEN /\ pc' = [pc EXCEPT ![p] = "raised"]
                /\ UNCHANGED <<st, stHist, stAlias, pending>>
           ELSE /\ pc' = [pc EXCEPT ![p] = "tools"]
                /\ st' = [st EXCEPT ![p].tool_choice = Normalize(reply)]
                /\ stHist' = [stHist EXCEPT ![p] = chat_history']
                /\ stAlias' = [stAlias EXCEPT ![p] = TRUE]
                /\ pending' = [pending EXCEPT ![p] = Stages]
  /\ UNCHANGED <<ret, hist0, outcome, invoked, writers, synth, log, turns, cut,
                 ragVars, ui>>

\* agent.py:60-109: ask the model for a label; None has no strip(), so a
\* reply without content raises out of the workflow
analyze_query(p, o) ==
  /\ pc[p] = "analyze_query"
  /\ obs' = [obs EXCEPT ![p].route = o,
                        ![p].ctxA = AnalyzeContext(chat_history)]
  /\ LET reply == ModelToolQuery(o)
     IN  IF reply = PyNone
           THEN /\ pc' = [pc EXCEPT ![p] = "raised"]
                /\ UNCHANGED <<st, stHist, stAlias, pending>>
           ELSE /\ pc' = [pc EXCEPT ![p] = "tools"]
                /\ st' = [st EXCEPT ![p].tool_choice = Normalize(reply)]
                /\ stHist' = [stHist EXCEPT ![p] = chat_history]
                /\ stAlias' = [stAlias EXCEPT ![p] = TRUE]
                /\ pending' = [pending EXCEPT ![p] = Stages]
  /\ UNCHANGED <<chat_history, ret, hist0, outcome, invoked, writers, synth,
                 log, turns, cut, ragVars, ui>>

\* the test, had every stage run for any label that is set
Selected_any(choice, label) == choice # PyNone

\* the test, had the MODEL stage also taken every label it does not know
Selected_default(choice, label) ==
  choice = label \/ (label = MODEL /\ choice \notin Labels)

\* agent.py:114, 124, 134: the test each tool stage makes
Selected(choice, label) == choice = label

\* agent.py:112-117: the RAG stage returns None or calls rag_tool.query
use_rag(p) ==
  /\ pc[p] = "tools"
  /\ "use_rag" \in pending[p]
  /\ rq[p].pc = "idle"
  /\ IF Selected(st[p].tool_choice, RAG)
       THEN /\ rq' = [rq EXCEPT ![p] = [NoQuery EXCEPT !.pc = "check",
                                        !.question = st[p].query]]
            /\ invoked' = [invoked EXCEPT ![p] = @ \cup {"rag"}]
            /\ UNCHANGED pending
       ELSE /\ pending' = [pending EXCEPT ![p] = @ \ {"use_rag"}]
            /\ UNCHANGED <<rq, invoked>>
  /\ UNCHANGED <<chat_history, pc, st, stHist, stAlias, ret, hist0, outcome,
                 writers, synth, obs, log, turns, cut, vector_store, ld, loads,
                 lastLoad, nq, ui>>

\* agent.py:117-119: rag_tool.query returned, its answer is the tool result
use_rag_return(p) ==
  /\ pc[p] = "tools"
  /\ "use_rag" \in pending[p]
  /\ rq[p].pc = "done"
  /\ st' = [st EXCEPT ![p].tool_result = rq[p].result]
  /\ writers' = [writers EXCEPT ![p] = @ \cup {"use_rag"}]
  /\ pending' = [pending EXCEPT ![p] = @ \ {"use_rag"}]
  /\ rq' = [rq EXCEPT ![p] = NoQuery]
  /\ UNCHANGED <<chat_history, pc, stHist, stAlias, ret, hist0, outcome,
                 invoked, synth, obs, log, turns, cut, vector_store, ld, loads,
                 lastLoad, nq, ui>>

\* agent.py:122-129: the MODEL stage returns None or asks the model
use_model(p, o) ==
  /\ pc[p] = "tools"
  /\ "use_model" \in pending[p]
  /\ pending' = [pending EXCEPT ![p] = @ \ {"use_model"}]
  /\ IF Selected(st[p].tool_choice, MODEL)
       THEN /\ st' = [st EXCEPT ![p].tool_result = ModelToolQuery(o)]
            /\ invoked' = [invoked EXCEPT ![p] = @ \cup {"model"}]
            /\ writers' = [writers EXCEPT ![p] = @ \cup {"use_model"}]
            /\ obs' = [obs EXCEPT ![p].tool = o]
       ELSE UNCHANGED <<st, invoked, writers, obs>>
  /\ UNCHANGED <<chat_history, pc, stHist, stAlias, ret, hist0, outcome,
                 synth, log, turns, cut, ragVars, ui>>

\* agent.py:132-139: the SEARCH stage returns None or searches the web
use_web_search(p, o) ==
  /\ pc[p] = "tools"
  /\ "use_web_search" \in pending[p]
  /\ pending' = [pending EXCEPT ![p] = @ \ {"use_web_search"}]
  /\ IF Selected(st[p].tool_choice, SEARCH)
       THEN /\ st' = [st EXCEPT ![p].tool_result = SearchText(o)]
            /\ invoked' = [invoked EXCEPT ![p] = @ \cup {"search"}]
            /\ writers' = [writers EXCEPT ![p] = @ \cup {"use_web_search"}]
            /\ obs' = [obs EXCEPT ![p].backend = o]
       ELSE UNCHANGED <<st, invoked, writers, obs>>
  /\ UNCHANGED <<chat_history, pc, stHist, stAlias, ret, hist0, outcome,
                 synth, log, turns, cut, ragVars, ui>>

\* generate_response, had it kept a turn whose synthesis request failed
\* out of the memory
generate_response_drops_failure(p, o) ==
  /\ pc[p] = "tools"
  /\ pending[p] = {}
  /\ LET response == ModelToolQuery(o)
         grown == IF o.kind = "raise" THEN chat_history
                  ELSE AppendTurn(chat_history, st[p].query, response)
     IN  /\ st' = [st EXCEPT ![p].response = response]
         /\ chat_history' = Trim(grown)
         /\ stHist' = [r \in Procs |-> IF stAlias[r] THEN grown ELSE stHist[r]]
         /\ stAlias' = [r \in Procs |-> stAlias[r] /\ Len(grown) <= HistoryCap]
  /\ synth' = [synth EXCEPT ![p] = o.kind]
  /\ obs' = [obs EXCEPT ![p].ctxS = SynthContext(chat_history)]
  /\ pc' = [pc EXCEPT ![p] = "END"]
  /\ UNCHANGED <<pending, ret, hist0, outcome, invoked, writers, log, turns,
                 cut, ragVars, ui>>

\* generate_response, had the workflow started it as soon as the label is
\* set, without waiting for the three tool stages
generate_response_eager(p, o) ==
  /\ pc[p] = "tools"
  /\ LET response == ModelToolQuery(o)
         grown == AppendTurn(chat_history, st[p].query, response)
     IN  /\ st' = [st EXCEPT ![p].response = response]
         /\ chat_history' = Trim(grown)
         /\ stHist' = [r \in Procs |-> IF stAlias[r] THEN grown ELSE stHist[r]]
         /\ stAlias' = [r \in Procs |-> stAlias[r] /\ Len(grown) <= HistoryCap]
  /\ synth' = [synth EXCEPT ![p] = o.kind]
  /\ obs' = [obs EXCEPT ![p].ctxS = SynthContext(chat_history)]
  /\ pc' = [pc EXCEPT ![p] = "END"]
  /\ UNCHANGED <<pending, ret, hist0, outcome, invoked, writers, log, turns, cut,
                 ragVars, ui>>

\* agent.py:142-176: ask the model for the answer, then record the turn in
\* the memory and cut the memory to its cap.  The appends change the list
\* in place, the cut binds self.chat_history to a new list.
generate_response(p, o) ==
  /\ pc[p] = "tools"
  /\ pending[p] = {}
  /\ LET response == ModelToolQuery(o)
         grown == AppendTurn(chat_history, st[p].query, response)
     IN  /\ st' = [st EXCEPT ![p].response = response]
         /\ chat_history' = Trim(grown)
         /\ stHist' = [r \in Procs |-> IF stAlias[r] THEN grown ELSE stHist[r]]
         /\ stAlias' = [r \in Procs |-> stAlias[r] /\ Len(grown) <= HistoryCap]
  /\ synth' = [synth EXCEPT ![p] = o.kind]
  /\ obs' = [obs EXCEPT ![p].ctxS = SynthContext(chat_history)]
  /\ pc' = [pc EXCEPT ![p] = "END"]
  /\ UNCHANGED <<pending, ret, hist0, outcome, invoked, writers, log, turns, cut,
                 ragVars, ui>>

\* The same stage of agent.py:142-176 statement by statement, for turns
\* that run in several threads: other threads can run between any two of
\* its steps.
\* agent.py:144-166: build the prompt, ask the model for the answer
generate_response_call(p, o) ==
  /\ pc[p] = "tools"
  /\ pending[p] = {}
  /\ st' = [st EXCEPT ![p].response = ModelToolQuery(o)]
  /\ synth' = [synth EXCEPT ![p] = o.kind]
  /\ obs' = [obs EXCEPT ![p].ctxS = SynthContext(chat_history)]
  /\ pc' = [pc EXCEPT ![p] = "append_user"]
  /\ UNCHANGED <<chat_history, stHist, stAlias, pending, ret, hist0, outcome,
                 invoked, writers, log, turns, cut, ragVars, ui>>

\* self.chat_history.append(e): the list object grows in place, and every
\* state that holds this object sees the new entry
ListAppend(e) ==
  /\ chat_history' = Append(chat_history, e)
  /\ stHist' = [r \in Procs |->
                  IF stAlias[r] THEN Append(chat_history, e) ELSE stHist[r]]
  /\ UNCHANGED stAlias

\* the memory update of another thread is under way
Updating(p) ==
  \E r \in Procs \ {p} : pc[r] \in {"append_assistant", "trim", "trim_assign"}

\* the first append, had the three statements of the memory update been
\* under a lock of the agent
append_user_locked(p) ==
  /\ pc[p] = "append_user"
  /\ ~Updating(p)
  /\ ListAppend(Entry("user", st[p].query))
  /\ pc' = [pc EXCEPT ![p] = "append_assistant"]
  /\ UNCHANGED <<st, pending, ret, hist0, outcome, invoked, writers, synth,
                 obs, log, turns, cut, ragVars, ui>>

\* agent.py:169: record the user's entry
append_user(p) ==
  /\ pc[p] = "append_user"
  /\ ListAppend(Entry("user", st[p].query))
  /\ pc' = [pc EXCEPT ![p] = "append_assistant"]
  /\ UNCHANGED <<st, pending, ret, hist0, outcome, invoked, writers, synth,
                 obs, log, turns, cut, ragVars, ui>>

\* agent.py:170: record the assistant's entry
append_assistant(p) ==
  /\ pc[p] = "append_assistant"
  /\ ListAppend(Entry("assistant", st[p].response))
  /\ pc' = [pc EXCEPT ![p] = "trim"]
  /\ UNCHANGED <<st, pending, ret, hist0, outcome, invoked, writers, synth,
                 obs, log, turns, cut, ragVars, ui>>

\* agent.py:173-174, right hand side: test the length and take the slice
\* of the last ten entries, a new list
trim_slice(p) ==
  /\ pc[p] = "trim"
  /\ IF Len(chat_history) > HistoryCap
       THEN /\ cut' = [cut EXCEPT ![p] = Trim(chat_history)]
            /\ pc' = [pc EXCEPT ![p] = "trim_assign"]
       ELSE /\ pc' = [pc EXCEPT ![p] = "END"]
            /\ UNCHANGED cut
  /\ UNCHANGED <<chat_history, st, stHist, stAlias, pending, ret, hist0,
                 outcome, invoked, writers, synth, obs, log, turns, ragVars, ui>>

\* agent.py:174, the assignment: self.chat_history is bound to the slice;
\* the states of running turns keep the list that was bound before
trim_assign(p) ==
  /\ pc[p] = "trim_assign"
  /\ chat_history' = cut[p]
  /\ stAlias' = [r \in Procs |-> FALSE]
  /\ cut' = [cut EXCEPT ![p] = <<>>]
  /\ pc' = [pc EXCEPT ![p] = "END"]
  /\ UNCHANGED <<st, stHist, pending, ret, hist0, outcome, invoked, writers,
                 synth, obs, log, turns, ragVars, ui>>

\* agent.py:190, 193: chat() has returned, the state of its turn is gone
Discard(p) ==
  /\ st' = [st EXCEPT ![p] = NewState(PyNone)]
  /\ stHist' = [stHist EXCEPT ![p] = <<>>]
  /\ stAlias' = [stAlias EXCEPT ![p] = FALSE]
  /\ invoked' = [invoked EXCEPT ![p] = {}]
  /\ writers' = [writers EXCEPT ![p] = {}]
  /\ synth' = [synth EXCEPT ![p] = "none"]
  /\ obs' = [obs EXCEPT ![p] = NoObs]

\* agent.py:189-190: the workflow ended, chat() returns the response
chat_return(p) ==
  /\ pc[p] = "END"
  /\ ret' = [ret EXCEPT ![p] = st[p].response]
  /\ outcome' = [outcome EXCEPT ![p] = "ok"]
  /\ log' = Append(log, <<st[p].query, st[p].response>>)
  /\ pc' = [pc EXCEPT ![p] = "idle"]
  /\ Discard(p)
  /\ UNCHANGED <<chat_history, pending, hist0, turns, cut, ragVars, ui>>

\* agent.py:191-193: what chat() returns when the workflow raised
Fallback(detail) == APOLOGY

\* agent.py:191-193: the workflow raised, chat() returns the apology
chat_except(p) ==
  /\ pc[p] = "raised"
  /\ ret' = [ret EXCEPT ![p] = Fallback(ERR)]
  /\ outcome' = [outcome EXCEPT ![p] = "failed"]
  /\ pc' = [pc EXCEPT ![p] = "idle"]
  /\ Discard(p)
  /\ UNCHANGED <<chat_history, pending, hist0, log, turns, cut, ragVars, ui>>

\* ------------------------------------------------------------- the page
\* app.py:167-171: the user enters a prompt, it is added to the messages
ui_input(q) ==
  /\ ui.pc = "ready"
  /\ Idle
  /\ ui' = [messages |-> Append(ui.messages, Entry("user", q)),
            pc |-> "asked", prompt |-> q, n |-> turns]
  /\ UNCHANGED <<agentVars, ragVars>>

\* app.py:177-179: agent.chat(prompt) has returned, the response is shown
\* and added to the messages
ui_show ==
  /\ ui.pc = "asked"
  /\ turns > ui.n
  /\ pc[Main] = "idle"
  /\ ui' = [messages |-> Append(ui.messages, Entry("assistant", ret[Main])),
            pc |-> "ready", prompt |-> PyNone, n |-> 0]
  /\ UNCHANGED <<agentVars, ragVars>>

\* the button, had it also reset the memory of the agent
ui_clear_resets_agent ==
  /\ ui.pc = "ready"
  /\ ui' = [ui EXCEPT !.messages = <<>>]
  /\ chat_history' = <<>>
  /\ UNCHANGED <<pc, st, stHist, stAlias, pending, ret, hist0, outcome,
                 invoked, writers, synth, obs, log, turns, cut, ragVars>>

\* app.py:156-159: the clear session history button
ui_clear ==
  /\ ui.pc = "ready"
  /\ ui' = [ui EXCEPT !.messages = <<>>]
  /\ UNCHANGED <<agentVars, ragVars>>

\* --------------------------------------------------------- specifications
\* The UI thread: uploads and questions one after the other, every answer
\* of the provider and of the search backend possible.
Next ==
  \/ \E q \in Queries : turns < MaxTurns /\ ld.pc = "idle" /\ chat(Main, q)
  \/ \E o \in RouteOutcomes : analyze_query(Main, o)
  \/ use_rag(Main)
  \/ use_rag_return(Main)
  \/ \E o \in AnswerOutcomes : use_model(Main, o)
  \/ \E o \in SearchOutcomes : use_web_search(Main, o)
  \/ \E o \in AnswerOutcomes : generate_response(Main, o)
  \/ chat_return(Main)
  \/ chat_except(Main)
  \/ \E b \in Batches : loads < MaxLoads /\ Idle /\ load_documents(b)
  \/ load_file
  \/ \E built \in BOOLEAN : load_build(built)
  \/ load_return
  \/ query_check(Main)
  \/ \E found \in BOOLEAN, d \in Retrievals(Indexed, DefaultK) :
        query_search(Main, found, d)
  \/ \E o \in AnswerOutcomes : query_model(Main, o)

Spec == Init /\ [][Next]_vars

\* The same, when every call the running turn waits for comes back: the
\* provider, the search backend and the vector search return or raise, and
\* the workflow runs the stage that is due.
TurnStep ==
  \/ \E o \in RouteOutcomes : analyze_query(Main, o)
  \/ use_rag(Main)
  \/ use_rag_return(Main)
  \/ \E o \in AnswerOutcomes : use_model(Main, o)
  \/ \E o \in SearchOutcomes : use_web_search(Main, o)
  \/ \E o \in AnswerOutcomes : generate_response(Main, o)
  \/ chat_return(Main)
  \/ chat_except(Main)
  \/ query_check(Main)
  \/ \E found \in BOOLEAN, d \in Retrievals(Indexed, DefaultK) :
        query_search(Main, found, d)
  \/ \E o \in AnswerOutcomes : query_model(Main, o)

SpecLive == Init /\ [][Next]_vars /\ WF_vars(TurnStep)

\* Many turns in a row against a model that routes to RAG or answers
\* nothing, with no documents loaded.
LongRoutes == {Ok(RAG), Ok(PyNone)}
LongAnswers == {Ok(ANSWER), Raise(ERR)}

NextLong ==
  \/ \E q \in Queries : turns < LongTurns /\ chat(Main, q)
  \/ \E o \in LongRoutes : analyze_query(Main, o)
  \/ use_rag(Main)
  \/ query_check(Main)
  \/ use_rag_return(Main)
  \/ \E o \in LongAnswers : use_model(Main, o)
  \/ \E o \in {NoItems} : use_web_search(Main, o)
  \/ \E o \in LongAnswers : generate_response(Main, o)
  \/ chat_return(Main)
  \/ chat_except(Main)

SpecLong == Init /\ [][NextLong]_vars

\* The retrieval pipeline alone: uploads and direct queries, interleaved.
NextRag ==
  \/ \E b \in Batches : loads < MaxLoads /\ load_documents(b)
  \/ load_file
  \/ \E built \in BOOLEAN : load_build(built)
  \/ load_return
  \/ \E q \in Queries : nq < MaxQueries /\ query(Main, q)
  \/ query_check(Main)
  \/ \E found \in BOOLEAN, d \in Retrievals(Indexed, DefaultK) :
        query_search(Main, found, d)
  \/ \E o \in AnswerOutcomes : query_model(Main, o)
  \/ query_return(Main)

SpecRag == Init /\ [][NextRag]_vars

\* The page: prompts and clicks on the clear button, one after the other,
\* against the model of SpecLong.
NextUI ==
  \/ \E q \in Queries : turns < MaxTurns /\ ui_input(q)
  \/ ui.pc = "asked" /\ turns = ui.n /\ chat(Main, ui.prompt)
  \/ \E o \in LongRoutes : analyze_query(Main, o)
  \/ use_rag(Main)
  \/ query_check(Main)
  \/ use_rag_return(Main)
  \/ \E o \in LongAnswers : use_model(Main, o)
  \/ \E o \in {NoItems} : use_web_search(Main, o)
  \/ \E o \in LongAnswers : generate_response(Main, o)
  \/ chat_return(Main)
  \/ chat_except(Main)
  \/ ui_show
  \/ ui_clear

SpecUI == Init /\ [][NextUI]_vars

\* Two threads that call chat() on one agent, with nothing to serialize
\* them; the same question in every turn, the model routes to MODEL and
\* answers.
ConcRoutes == {Ok(MODEL)}
ConcAnswers == {Ok(ANSWER)}
QueryOf(p) == Q1

NextConc ==
  \/ \E p \in Procs : turns < ConcTurns /\ chat(p, QueryOf(p))
  \/ \E p \in Procs, o \in ConcRoutes : analyze_query(p, o)
  \/ \E p \in Procs : use_rag(p)
  \/ \E p \in Procs, o \in ConcAnswers : use_model(p, o)
  \/ \E p \in Procs, o \in {NoItems} : use_web_search(p, o)
  \/ \E p \in Procs, o \in ConcAnswers : generate_response_call(p, o)
  \/ \E p \in Procs : append_user(p)
  \/ \E p \in Procs : append_assistant(p)
  \/ \E p \in Procs : trim_slice(p)
  \/ \E p \in Procs : trim_assign(p)
  \/ \E p \in Procs : chat_return(p)

SpecConc == Init /\ [][NextConc]_vars

\* ------------------------------------------------------------- properties
\* the memory entries of the completed turns t, oldest first
RECURSIVE Entries(_)
Entries(t) ==
  IF t = <<>> THEN <<>>
  ELSE <<Entry("user", Head(t)[1]), Entry("assistant", Head(t)[2])>>
         \o Entries(Tail(t))

C2_MemoryCappedFifo ==
  Idle =>
    /\ Len(chat_history) <= HistoryCap
    /\ chat_history = LastN(Entries(log), HistoryCap)

\* more than five turns completed, one failed, and entries were evicted
C2_Witness ==
  /\ Idle
  /\ Len(log) > 5
  /\ turns > Len(log)
  /\ Len(chat_history) = HistoryCap
  /\ chat_history[1] # Entries(log)[1]

\* C3: after more than five completed turns the memory has exactly ten
\* entries, the user and assistant entries of the five most recent turns,
\* in the order of the calls.
C3_LastFiveExchanges ==
  (Idle /\ Len(log) > 5) =>
    /\ Len(chat_history) = 10
    /\ \A i \in 1..5 :
         LET turn == log[Len(log) - 5 + i]
         IN  /\ chat_history[2 * i - 1] = Entry("user", turn[1])
             /\ chat_history[2 * i] = Entry("assistant", turn[2])

\* seven turns completed, with different questions and different answers
C3_Witness ==
  /\ Idle
  /\ Len(log) = 7
  /\ log[1] # log[7]
  /\ log[2][1] # log[3][1]
  /\ chat_history[1].content = log[3][1]

\* C4: what chat() returns is the fixed apology or an answer the provider
\* gave to the synthesis request, never the text of a failure: when the
\* workflow has ended, the response chat() is about to return comes from a
\* synthesis request the provider answered and is no degraded failure text,
\* and a failed turn returns the apology.
C4_ReturnIsApologyOrSynthesized ==
  \A p \in Procs :
    /\ pc[p] = "END" =>
          /\ synth[p] = "ok"
          /\ Head(st[p].response) # MODEL_FAILED
    /\ outcome[p] = "failed" => ret[p] = APOLOGY

\* the tool and the stage a label selects
ToolOf(label) ==
  CASE label = RAG -> "rag" [] label = MODEL -> "model" [] label = SEARCH -> "search"
StageOf(label) ==
  CASE label = RAG -> "use_rag" [] label = MODEL -> "use_model"
    [] label = SEARCH -> "use_web_search"

\* C5: in a turn routed to RAG, MODEL or SEARCH no tool but the selected
\* one is called and no stage but the selected one writes tool_result; once
\* the three stages have run, exactly that tool was called and exactly that
\* stage wrote; until it writes, tool_result stays unset.
C5_OnlySelectedToolRuns ==
  \A p \in Procs :
    st[p].tool_choice \in Labels =>
      /\ invoked[p] \subseteq {ToolOf(st[p].tool_choice)}
      /\ writers[p] \subseteq {StageOf(st[p].tool_choice)}
      /\ writers[p] = {} => st[p].tool_result = PyNone
      /\ (pc[p] = "END" \/ (pc[p] = "tools" /\ pending[p] = {})) =>
            /\ invoked[p] = {ToolOf(st[p].tool_choice)}
            /\ writers[p] = {StageOf(st[p].tool_choice)}

\* a turn routed to RAG ran against a loaded index and only retrieval ran
C5_Witness ==
  /\ pc[Main] = "END"
  /\ st[Main].tool_choice = RAG
  /\ invoked[Main] = {"rag"}
  /\ writers[Main] = {"use_rag"}
  /\ vector_store # PyNone
  /\ st[Main].tool_result \notin {PyNone, EMPTY_KB}

\* the turn of p was routed to a label that is none of the three
Unrouted(p) == st[p].tool_choice \notin (Labels \cup {PyNone})

\* C6: a label outside RAG, MODEL, SEARCH is kept as it is, no tool runs
\* and tool_result stays unset; the turn does not fail, synthesis adds the
\* turn to the memory as any turn, and chat() returns its response.
C6_UnknownLabelStillAnswers ==
  /\ [](\A p \in Procs :
          Unrouted(p) =>
            /\ pc[p] \in {"tools", "END"}
            /\ invoked[p] = {} /\ writers[p] = {}
            /\ st[p].tool_result = PyNone
            /\ pc[p] = "END" =>
                  chat_history =
                    Trim(AppendTurn(hist0[p], st[p].query, st[p].response)))
  /\ [][\A p \in Procs :
          Unrouted(p) =>
            /\ pc[p] = "tools" => st'[p].tool_choice = st[p].tool_choice
            /\ (pc[p] = "END" /\ pc'[p] # "END") =>
                  /\ ret'[p] = st[p].response
                  /\ outcome'[p] = "ok"]_vars

\* after a turn that used a tool, a turn with an unknown label is answered
C6_Witness ==
  /\ pc[Main] = "END"
  /\ Unrouted(Main)
  /\ st[Main].tool_choice = <<"R", "A", "G", "!">>
  /\ st[Main].response = ANSWER
  /\ hist0[Main] # <<>>
  /\ chat_history # hist0[Main]

\* C7: the index is absent until a load builds one, and from then on it is
\* the complete list of chunks of the batch of the last load that built
\* one, in every state a query can run in, also while a later load is
\* collecting chunks or has failed; what a query has retrieved comes from
\* the complete chunks of one batch.
C7_IndexAbsentOrComplete ==
  /\ vector_store = lastLoad
  /\ \A p \in Procs :
       rq[p].pc = "model" =>
         \E b \in Batches :
           rq[p].docs \in Retrievals(DecodableChunks(b), rq[p].k)

\* a query searches the old index while a later load has collected chunks
\* that differ from it
C7_Witness ==
  /\ vector_store # PyNone
  /\ ld.pc = "loop"
  /\ ld.documents # <<>>
  /\ ld.documents # vector_store
  /\ ld.i <= Len(ld.files)
  /\ rq[Main].pc = "search"

\* C8: query() calls the model only after it found an index and retrieved
\* at least one chunk; without an index it returns the fixed empty
\* knowledge base text, with an index and no retrieved chunk the fixed
\* no relevant documents text, in both cases without a model call.
C8_ModelOnlyWithRetrievedChunks ==
  \A p \in Procs :
    /\ rq[p].pc = "model" =>
          rq[p].indexed /\ rq[p].searched = "returned" /\ rq[p].docs # <<>>
    /\ rq[p].called =>
          rq[p].indexed /\ rq[p].searched = "returned" /\ rq[p].docs # <<>>
    /\ (rq[p].pc = "done" /\ ~rq[p].indexed) =>
          rq[p].result = EMPTY_KB /\ ~rq[p].called
    /\ (rq[p].pc = "done" /\ rq[p].searched = "returned" /\ rq[p].docs = <<>>) =>
          rq[p].result = NO_DOCS /\ ~rq[p].called

\* a query against a loaded index retrieved nothing
C8_Witness ==
  /\ rq[Main].pc = "done"
  /\ rq[Main].indexed
  /\ rq[Main].searched = "returned"
  /\ rq[Main].docs = <<>>
  /\ rq[Main].result = NO_DOCS
  /\ vector_store # PyNone

\* the load that has just finished built an index
Built == ld.pc = "done" /\ ld.report \notin {NOTHING_LOADED, <<LOAD_FAILED>> \o ERR}

\* C9: a load whose batch yields the chunks the index already holds leaves
\* the index as it was, so loading the same batch again replaces the index
\* and does not add to it; the index never holds more chunks than its last
\* batch yields, and a query retrieves at most k chunks.
C9_ReloadReplaces ==
  /\ (Built /\ ld.before = DecodableChunks(ld.files)) =>
        vector_store = ld.before
  /\ Built => Len(vector_store) = Len(DecodableChunks(ld.files))
  /\ \A p \in Procs : Len(rq[p].docs) <= rq[p].k

\* the same chunks were loaded twice, more of them than a query retrieves
C9_Witness ==
  /\ Built
  /\ loads >= 2
  /\ ld.before # PyNone
  /\ ld.before = DecodableChunks(ld.files)
  /\ vector_store = ld.before
  /\ Len(vector_store) > DefaultK

\* C10: a source that fails to decode is skipped and the sources after it
\* are still read: when the loop ends, documents holds the chunks of all
\* decodable sources in source order, and a load that builds an index
\* installs exactly these and reports their number.
C10_UndecodableSourceSkipped ==
  /\ ld.pc = "loop" =>
        ld.documents = DecodableChunks(SubSeq(ld.files, 1, ld.i - 1))
  /\ ld.pc = "done" =>
        /\ ld.i = Len(ld.files) + 1
        /\ ld.documents = DecodableChunks(ld.files)
        /\ ld.report = NOTHING_LOADED <=> DecodableChunks(ld.files) = <<>>
  /\ Built =>
        /\ vector_store = DecodableChunks(ld.files)
        /\ ld.report = LoadedReport(Len(DecodableChunks(ld.files)))

\* a batch with an undecodable source before a decodable one was loaded
C10_Witness ==
  /\ Built
  /\ Len(ld.files) = 2
  /\ ~ld.files[1].decodes
  /\ ld.files[2].decodes
  /\ vector_store = ld.files[2].chunks
  /\ vector_store # <<>>

\* the search backend raised in the turn of p
SearchRaised(p) == obs[p].backend.kind \in {"http_error", "error"}

\* turn p has ended in a response that is recorded like any other
Recorded(p) ==
  chat_history = Trim(AppendTurn(hist0[p], st[p].query, st[p].response))

\* C11: when the search backend raises in a SEARCH turn, search() returns
\* a text that describes the failure, the turn goes on to synthesis with
\* that text as tool_result and does not fail, the turn is recorded in the
\* memory, and chat() returns the response of the synthesis.
C11_SearchFailureDegrades ==
  /\ [](\A p \in Procs :
          SearchRaised(p) =>
            /\ pc[p] \in {"tools", "END"}
            /\ st[p].tool_choice = SEARCH
            /\ writers[p] = {"use_web_search"}
            /\ st[p].tool_result =
                 (IF obs[p].backend.kind = "http_error"
                    THEN <<SEARCH_FAILED>> ELSE <<SEARCH_ERROR>>)
                   \o obs[p].backend.text
            /\ pc[p] = "END" => synth[p] # "none" /\ Recorded(p))
  /\ [][\A p \in Procs :
          (SearchRaised(p) /\ pc[p] = "END" /\ pc'[p] # "END") =>
            /\ ret'[p] = st[p].response
            /\ outcome'[p] = "ok"
            /\ log' = Append(log, <<st[p].query, st[p].response>>)]_vars

\* a SEARCH turn whose backend raised an HTTP error was answered
C11_Witness ==
  /\ pc[Main] = "END"
  /\ obs[Main].backend.kind = "http_error"
  /\ st[Main].tool_result = <<SEARCH_FAILED>> \o ERR
  /\ synth[Main] = "ok"
  /\ st[Main].response = ANSWER

\* the text ModelTool.query makes of a provider error
Degraded(o) == <<MODEL_FAILED>> \o o.text

\* C12: ModelTool.query returns the degraded text for every provider
\* error, at each of its four call sites, and no turn fails because of
\* one: a routing request that raised yields a label, a MODEL stage or a
\* RAG synthesis that raised yields a tool result, a final synthesis that
\* raised yields a response; a turn that fails had its routing request
\* answered.
C12_ModelQueryNeverRaises ==
  \A p \in Procs :
    /\ obs[p].route.kind = "raise" =>
          /\ pc[p] \in {"tools", "END"}
          /\ st[p].tool_choice = Upper(Strip(Degraded(obs[p].route)))
    /\ obs[p].tool.kind = "raise" =>
          /\ pc[p] \in {"tools", "END"}
          /\ st[p].tool_result = Degraded(obs[p].tool)
    /\ rq[p].answer.kind = "raise" =>
          /\ rq[p].pc = "done"
          /\ rq[p].result = Degraded(rq[p].answer)
    /\ synth[p] = "raise" =>
          /\ pc[p] = "END"
          /\ st[p].response = Degraded(Raise(ERR))
    /\ pc[p] = "raised" => obs[p].route.kind = "ok"

\* the provider raised on the routing request and on the final synthesis
C12_Witness ==
  /\ pc[Main] = "END"
  /\ obs[Main].route.kind = "raise"
  /\ synth[Main] = "raise"
  /\ st[Main].response = <<MODEL_FAILED>> \o ERR

\* C13: whenever the search backend answers with no result items, the
\* items field missing or present and empty, search() returns the fixed
\* no results text and never the empty text.
C13_NoResultsMessage ==
  \A p \in Procs :
    (obs[p].backend.kind = "result"
       /\ (~obs[p].backend.hasItems \/ obs[p].backend.items = <<>>)) =>
      /\ st[p].tool_result = NO_RESULTS
      /\ st[p].tool_result # <<>>

\* the moves of a turn from one stage to the next
StageOrder ==
  {<<"idle", "analyze_query">>, <<"analyze_query", "tools">>,
   <<"analyze_query", "raised">>, <<"tools", "END">>, <<"END", "idle">>,
   <<"raised", "idle">>}

\* C15: a turn runs analyze, then the three tool stages, then synthesize.
\* Before analyze has run nothing of the state is set; while the tool
\* stages run the label is set and there is no response; synthesize runs
\* once, after all three tool stages, and if the label names a tool after
\* that tool's stage has written tool_result; at most one stage writes a
\* tool result.
C15_StrictStageOrder ==
  /\ [](\A p \in Procs :
          /\ Cardinality(writers[p]) <= 1
          /\ pc[p] = "analyze_query" =>
                /\ st[p].tool_choice = PyNone
                /\ st[p].tool_result = PyNone
                /\ writers[p] = {}
          /\ pc[p] \in {"analyze_query", "tools", "raised"} =>
                synth[p] = "none" /\ st[p].response = PyNone
          /\ pc[p] = "tools" => st[p].tool_choice # PyNone
          /\ pc[p] = "END" =>
                /\ st[p].tool_choice # PyNone
                /\ pending[p] = {}
                /\ synth[p] # "none"
                /\ st[p].tool_choice \in Labels =>
                      writers[p] = {StageOf(st[p].tool_choice)})
  /\ [][\A p \in Procs :
          /\ pc'[p] # pc[p] => <<pc[p], pc'[p]>> \in StageOrder
          /\ (synth'[p] # synth[p] /\ synth'[p] # "none") =>
                synth[p] = "none" /\ pc[p] = "tools" /\ pc'[p] = "END"
          /\ st'[p].response # st[p].response =>
                \/ pc[p] = "tools" /\ pc'[p] = "END"
                \/ pc'[p] = "idle"
          /\ (pending'[p] # pending[p] /\ pc[p] = "tools") =>
                pending'[p] \subseteq pending[p]]_vars

\* a RAG turn has been synthesized after the RAG stage wrote its result
C15_Witness ==
  /\ pc[Main] = "END"
  /\ st[Main].tool_choice = RAG
  /\ writers[Main] = {"use_rag"}
  /\ st[Main].tool_result # PyNone
  /\ synth[Main] = "ok"

\* C16: the chat_history held in the state of a turn is not changed during
\* the turn: at the end of the turn it is what it was at the start.
C16_StateHistoryUnchanged ==
  \A p \in Procs : pc[p] = "END" => stHist[p] = hist0[p]

Cases ==
  {<<"r", "R">>, <<"a", "A">>, <<"g", "G">>, <<"m", "M">>, <<"o", "O">>,
   <<"d", "D">>, <<"e", "E">>, <<"l", "L">>, <<"s", "S">>, <<"c", "C">>,
   <<"h", "H">>}

Blank(c) == c \in {" ", "\n", "\t"}

\* reply is label, but for the case of its letters and for whitespace
\* around it
SameButCaseAndSpace(reply, label) ==
  \E i \in 0..Len(reply) :
    /\ i + Len(label) <= Len(reply)
    /\ \A k \in 1..i : Blank(reply[k])
    /\ \A k \in 1..Len(label) :
          reply[i + k] = label[k] \/ <<reply[i + k], label[k]>> \in Cases
    /\ \A k \in (i + Len(label) + 1)..Len(reply) : Blank(reply[k])

\* C18: the routing label is the reply of the model, trimmed and in upper
\* case; a reply that is a label but for case and surrounding whitespace
\* runs the tool of that label and no other, every other reply runs no
\* tool.
C18_RoutingByNormalizedLabel ==
  \A p \in Procs :
    (pc[p] \in {"tools", "END"} /\ obs[p].route.kind = "ok") =>
      LET reply == obs[p].route.text
      IN  /\ st[p].tool_choice = Upper(Strip(reply))
          /\ \A l \in Labels :
                SameButCaseAndSpace(reply, l) =>
                  /\ invoked[p] \subseteq {ToolOf(l)}
                  /\ pc[p] = "END" => invoked[p] = {ToolOf(l)}
          /\ (\A l \in Labels : ~SameButCaseAndSpace(reply, l)) =>
                invoked[p] = {} /\ writers[p] = {}

\* a reply in lower case with whitespace around it was routed to RAG
C18_Witness ==
  /\ pc[Main] = "END"
  /\ obs[Main].route.text = <<" ", "r", "a", "g", "\n">>
  /\ st[Main].tool_choice = RAG
  /\ invoked[Main] = {"rag"}

\* the complete indexes: all chunks of the decodable files of one batch
CompleteIndexes == {DecodableChunks(b) : b \in Batches} \ {<<>>}

\* C20: a query that runs while a load runs finds the index that was in
\* place before the load or the complete index of the load.  A query that
\* has seen an index never finds it absent when it searches; the index
\* never goes back to absent; it changes in one step only, the step of a
\* load that ends its collecting, from the index before to the complete
\* index made of all chunks of the load; and what a query retrieves, it
\* retrieves from a complete index.
C20_QuerySeesOldOrNewIndex ==
  /\ [](\A p \in Procs : rq[p].pc = "search" => vector_store # PyNone)
  /\ [](ld.pc = "loop" => vector_store = lastLoad)
  /\ [][/\ vector_store # PyNone => vector_store' # PyNone
        /\ vector_store' # vector_store =>
              /\ ld.pc = "loop" /\ ld'.pc = "done"
              /\ ld'.before = vector_store
              /\ vector_store' = DecodableChunks(ld.files)
              /\ vector_store' \in CompleteIndexes
        /\ \A p \in Procs :
              (rq[p].pc = "search" /\ rq'[p].pc = "model") =>
                /\ vector_store \in CompleteIndexes
                /\ rq'[p].docs \in Retrievals(vector_store, rq[p].k)]_vars

\* a query holds chunks of the index that was in place before the load
\* that has now installed a different one
C20_Witness ==
  /\ rq[Main].pc = "model"
  /\ ld.pc = "done"
  /\ ld.before # PyNone
  /\ vector_store # ld.before
  /\ rq[Main].docs \in Retrievals(ld.before, rq[Main].k)
  /\ rq[Main].docs \notin Retrievals(vector_store, rq[Main].k)

\* h is a sequence of pairs, a user entry and then an assistant entry
Paired(h) ==
  /\ Len(h) % 2 = 0
  /\ \A i \in 1..Len(h) :
        h[i].role = (IF i % 2 = 1 THEN "user" ELSE "assistant")

\* C14: nothing serializes the memory updates of two chat() calls that run
\* at the same time: while one thread is between its first append and the
\* end of its trim, the other thread's appends can run.  (The state this
\* leads to, a memory that is not made of pairs and has lost an appended
\* entry, is C14_Witness.)
C14_MemoryUpdatesUnserialized ==
  \A p \in Procs :
    /\ (pc[p] = "append_user" /\ Updating(p)) => ENABLED append_user(p)
    /\ (pc[p] = "append_assistant"
          /\ \E r \in Procs \ {p} : pc[r] = "trim_assign") =>
         ENABLED append_assistant(p)

\* all turns have returned, and the memory ends with a user entry: the
\* assistant entry appended after it was on the list that a trim of the
\* other thread replaced
C14_Witness ==
  /\ Idle
  /\ Len(log) >= 6
  /\ ~Paired(chat_history)
  /\ chat_history[Len(chat_history)].role = "user"

\* C19: every chat() call returns, with a text: a turn that has begun
\* ends, in the response of the synthesis or in the apology, and what the
\* call returns is a text.
C19_ChatReturnsText ==
  /\ \A p \in Procs :
        pc[p] # "idle" ~> (pc[p] = "idle" /\ outcome[p] \in {"ok", "failed"})
  /\ [](\A p \in Procs :
          outcome[p] \in {"ok", "failed"} => ret[p] # PyNone)

\* C21: with one chat() call at a time, whenever no call is in progress
\* the memory has an even number of entries, user and assistant in turn
\* from a user entry on, and the k-th pair is the question and the text
\* chat() returned for it, of the turn that many completed turns back; the
\* cut to ten entries leaves whole pairs.
C21_MemoryIsPairsOfTurns ==
  Idle =>
    /\ Paired(chat_history)
    /\ Len(chat_history) <= 2 * Len(log)
    /\ \A k \in 1..(Len(chat_history) \div 2) :
          LET turn == log[Len(log) - (Len(chat_history) \div 2) + k]
          IN  /\ chat_history[2 * k - 1].content = turn[1]
              /\ chat_history[2 * k].content = turn[2]

\* six turns completed, the cut has dropped the first pair and the memory
\* begins with the question of the second turn
C21_Witness ==
  /\ Idle
  /\ Len(log) = 6
  /\ Len(chat_history) = HistoryCap
  /\ chat_history[1] = Entry("user", log[2][1])
  /\ chat_history[2] = Entry("assistant", log[2][2])
  /\ log[1][1] # log[2][1]

\* the last two entries of a prompt window w are the pair of turn t
EndsWithTurn(w, t) ==
  /\ Len(w) >= 2
  /\ w[Len(w) - 1] = Entry("user", t[1])
  /\ w[Len(w)] = Entry("assistant", t[2])

\* C22: a turn whose synthesis request the provider failed is a completed
\* turn: its response is the failure text and not the apology, the memory
\* grows by the question and the failure text, chat() returns the failure
\* text, and the prompts of the next turn hold that pair.
C22_SynthesisFailureIsRecorded ==
  /\ [](\A p \in Procs :
          (pc[p] = "END" /\ synth[p] = "raise") =>
            /\ st[p].response = <<MODEL_FAILED>> \o ERR
            /\ st[p].response # APOLOGY
            /\ chat_history =
                 Trim(hist0[p] \o <<Entry("user", st[p].query),
                                    Entry("assistant", <<MODEL_FAILED>> \o ERR)>>))
  /\ [][\A p \in Procs :
          (pc[p] = "END" /\ synth[p] = "raise" /\ pc'[p] # "END") =>
            /\ ret'[p] = <<MODEL_FAILED>> \o ERR
            /\ outcome'[p] = "ok"
            /\ log' = Append(log, <<st[p].query, <<MODEL_FAILED>> \o ERR>>)]_vars
  /\ [](\A p \in Procs :
          (Len(log) > 0 /\ log[Len(log)][2] = <<MODEL_FAILED>> \o ERR) =>
            /\ pc[p] \in {"tools", "raised", "END"} =>
                  EndsWithTurn(obs[p].ctxA, log[Len(log)])
            /\ pc[p] = "END" => EndsWithTurn(obs[p].ctxS, log[Len(log)]))

\* the turn after one whose synthesis request failed has been synthesized
\* with the failure text in its prompt
C22_Witness ==
  /\ pc[Main] = "END"
  /\ Len(log) = 1
  /\ ret[Main] = <<MODEL_FAILED>> \o ERR
  /\ obs[Main].ctxS =
       <<Entry("user", log[1][1]), Entry("assistant", <<MODEL_FAILED>> \o ERR)>>
  /\ synth[Main] = "ok"

\* the load that has ended built no index: it found no chunk, or the build
\* of the index failed
LoadedNothing ==
  /\ ld.pc = "done"
  /\ \/ ld.report = NOTHING_LOADED /\ DecodableChunks(ld.files) = <<>>
     \/ ld.report = <<LOAD_FAILED>> \o ERR

\* C23: a load_documents call that yields no chunk, or whose build of the
\* index fails, leaves the index as it was when the call began.  The index
\* is untouched while the call collects chunks and when it ends without an
\* index of its own; a query that then searches retrieves from the index
\* of before the call, and a query that then finds no index is one of a
\* tool that had none before the call.
C23_FruitlessLoadKeepsIndex ==
  /\ [](ld.pc = "loop" => vector_store = ld.start)
  /\ [](LoadedNothing => vector_store = ld.start)
  /\ [](ld.pc = "done" =>
          \/ LoadedNothing
          \/ ld.report = LoadedReport(Len(DecodableChunks(ld.files)))
               /\ DecodableChunks(ld.files) # <<>>)
  /\ [][\A p \in Procs :
          LoadedNothing =>
            /\ (rq[p].pc = "search" /\ rq'[p].pc = "model") =>
                  /\ ld.start # PyNone
                  /\ rq'[p].docs \in Retrievals(ld.start, rq[p].k)
            /\ (rq[p].pc = "check" /\ rq'[p].pc = "done") =>
                  ld.start = PyNone /\ rq'[p].result = EMPTY_KB
            /\ (rq[p].pc = "check" /\ rq'[p].pc = "search") =>
                  ld.start # PyNone]_vars

\* the build of a second load failed, and a query has retrieved the chunks
\* of the first load
C23_Witness ==
  /\ ld.pc = "done"
  /\ ld.report = <<LOAD_FAILED>> \o ERR
  /\ ld.start # PyNone
  /\ DecodableChunks(ld.files) # ld.start
  /\ vector_store = ld.start
  /\ rq[Main].pc = "model"
  /\ rq[Main].docs = ld.start

\* a step that empties the displayed messages
Clears == ui.messages # <<>> /\ ui'.messages = <<>>

\* C24: the clear button empties the displayed messages and nothing else:
\* the memory and every other part of the agent and of the knowledge base
\* stay as they are.  No step makes the memory shorter, and the only step
\* that changes it is the synthesis of a turn, which appends the turn and
\* cuts to the cap.  So the prompts of a turn hold the last entries of the
\* completed turns whether or not the messages were cleared in between.
C24_ClearKeepsMemory ==
  /\ [][Clears => UNCHANGED <<agentVars, ragVars>>]_vars
  /\ [][Len(chat_history') >= Len(chat_history)]_vars
  /\ [][chat_history' # chat_history =>
          \E p \in Procs :
            /\ pc[p] = "tools" /\ pc'[p] = "END"
            /\ chat_history' =
                 Trim(AppendTurn(chat_history, st[p].query, st'[p].response))]_vars
  /\ [](\A p \in Procs :
          /\ pc[p] \in {"tools", "raised", "END"} =>
                obs[p].ctxA = LastN(Entries(log), ContextWindow)
          /\ pc[p] = "END" =>
                obs[p].ctxS = LastN(Entries(log), ContextWindow))

\* the messages were cleared after the first turn, and the second turn was
\* answered from prompts that hold the first turn
C24_Witness ==
  /\ pc[Main] = "END"
  /\ Len(log) = 1
  /\ ui.messages = <<Entry("user", st[Main].query)>>
  /\ obs[Main].ctxA = Entries(log)
  /\ obs[Main].ctxS = Entries(log)
  /\ Len(chat_history) = 4

====
